---- MODULE Spec2Model ----
(***************************************************************************)
(* Checkpoint ledger of the aaw-collection contracts.                      *)
(*                                                                         *)
(*   src/checkpoint.rs  CheckpointData: the per-account checkpoint log,    *)
(*                      its append and its two lookups.                    *)
(*   src/lib.rs         Aaw: the PSP34 contract with the vote queries      *)
(*                      get_current_votes / get_votes_at_block.            *)
(*                                                                         *)
(* An ink! Mapping is a TLA+ function whose DOMAIN is the set of keys that *)
(* were inserted; Option values are sequences of length 0 (None) or 1      *)
(* (Some).  A Rust panic (unwrap of None, checked arithmetic) is the       *)
(* result [panic |-> TRUE]; a panicking message changes no storage.        *)
(***************************************************************************)
EXTENDS Integers, Sequences, FiniteSets, TLC

VARIABLES
    account_to_checkpoint_map,        \* CheckpointData: (account, index) -> Checkpoint
    num_of_checkpoints_per_account,   \* CheckpointData: account -> count
    current_block,                    \* host environment: block number
    ret,                              \* the last call and what it returned
    history,                          \* token-ledger events notified so far
    balance,                          \* token ledger: tokens held per account
    psp34,                            \* Aaw.psp34: token id -> owner
    approvals,                        \* Aaw.psp34: approvals granted
    owner,                            \* Aaw.owner
    checkpoints,                      \* Aaw.checkpoints
    num_checkpoints,                  \* Aaw.num_checkpoints
    search                            \* the binary search in progress, if any

vars == <<account_to_checkpoint_map, num_of_checkpoints_per_account,
          current_block, ret, history, balance,
          psp34, approvals, owner, checkpoints, num_checkpoints, search>>

storeVars == <<account_to_checkpoint_map, num_of_checkpoints_per_account>>
hookVars == <<history, balance>>
aawVars == <<psp34, approvals, owner, checkpoints, num_checkpoints>>

----------------------------------------------------------------------------
(* Bounds of the model *)

MaxLen == 4         \* checkpoints in the store, all accounts together
MaxBlock == 2       \* the clock runs over 0..MaxBlock
MaxEvents == 3      \* ledger events in a history
MaxTokens == 2      \* tokens minted on the Aaw contract
MaxApprovals == 1   \* approvals held by the token ledger

Accounts == {"A", "B"}

RECURSIVE SumOver(_, _)
SumOver(f, S) ==
    IF S = {} THEN 0
    ELSE LET x == CHOOSE y \in S : TRUE IN f[x] + SumOver(f, S \ {x})

(* Number of checkpoints counted by a count mapping *)
TotalCheckpoints(num) == SumOver(num, DOMAIN num)

----------------------------------------------------------------------------
(* Option and panic encodings *)

None == <<>>
Some(v) == <<v>>
Ok(v) == [panic |-> FALSE, val |-> v]
Panic == [panic |-> TRUE, val |-> None]

(* ink::storage::Mapping *)
EmptyMapping == [k \in {} |-> None]
MapGet(m, k) == IF k \in DOMAIN m THEN Some(m[k]) ELSE None
MapInsert(m, k, v) == [x \in (DOMAIN m) \cup {k} |-> IF x = k THEN v ELSE m[x]]

(* Checkpoint with its two u32 fields filled in the wrong order *)
Checkpoint_swapped(from_block, votes) == [from_block |-> votes, votes |-> from_block]

(* struct Checkpoint *)
Checkpoint(from_block, votes) == [from_block |-> from_block, votes |-> votes]

(* num.get(account).unwrap_or(0) *)
NumOf(num, account) == IF account \in DOMAIN num THEN num[account] ELSE 0

----------------------------------------------------------------------------
(* CheckpointData::get_last_checkpoint *)

get_last_checkpoint(map, num, account_id) ==
    LET n == NumOf(num, account_id) IN
    IF n = 0 THEN None
    ELSE MapGet(map, <<account_id, n - 1>>)

(* The while loop of get_checkpoint_at_block: Ok(Some(cp)), or Panic when  *)
(* an unwrap meets a missing entry or center - 1 underflows.               *)
RECURSIVE floor_search(_, _, _, _, _)
floor_search(map, account_id, wanted_block, lower, upper) ==
    IF upper > lower
    THEN LET center == upper - ((upper - lower) \div 2)
             cpo == MapGet(map, <<account_id, center>>)
         IN  IF cpo = None THEN Panic
             ELSE IF cpo[1].from_block = wanted_block THEN Ok(cpo)
             ELSE IF cpo[1].from_block < wanted_block
                  THEN floor_search(map, account_id, wanted_block, center, upper)
             ELSE IF center = 0 THEN Panic
                  ELSE floor_search(map, account_id, wanted_block, lower, center - 1)
    ELSE LET cpo == MapGet(map, <<account_id, lower>>)
         IN  IF cpo = None THEN Panic ELSE Ok(cpo)

(* get_checkpoint_at_block without the test of the checkpoint at index 0 *)
get_checkpoint_at_block_no_first_guard(map, num, account_id, wanted_block, cur_block) ==
    IF wanted_block > cur_block THEN Ok(None)
    ELSE LET n == NumOf(num, account_id) IN
         IF n = 0 THEN Ok(None)
         ELSE floor_search(map, account_id, wanted_block, 0, n - 1)

(* get_checkpoint_at_block without the test wanted_block > current_block *)
get_checkpoint_at_block_no_future_guard(map, num, account_id, wanted_block, cur_block) ==
    LET n == NumOf(num, account_id) IN
    IF n = 0 THEN Ok(None)
    ELSE LET first == MapGet(map, <<account_id, 0>>) IN
         IF first = None THEN Panic
         ELSE IF first[1].from_block > wanted_block THEN Ok(None)
         ELSE floor_search(map, account_id, wanted_block, 0, n - 1)

(* CheckpointData::get_checkpoint_at_block *)
get_checkpoint_at_block(map, num, account_id, wanted_block, cur_block) ==
    IF wanted_block > cur_block THEN Ok(None)
    ELSE LET n == NumOf(num, account_id) IN
         IF n = 0 THEN Ok(None)
         ELSE LET first == MapGet(map, <<account_id, 0>>) IN
              IF first = None THEN Panic
              ELSE IF first[1].from_block > wanted_block THEN Ok(None)
              ELSE floor_search(map, account_id, wanted_block, 0, n - 1)

(* next_cp_votes with a saturating subtraction: 0 - 1 is clamped to 0 *)
next_cp_votes_saturating(votes, increment) ==
    IF increment
    THEN Ok(votes + 1)
    ELSE IF votes - 1 < 0 THEN Ok(0) ELSE Ok(votes - 1)

(* next_cp_votes that ignores the increment flag *)
next_cp_votes_always_up(votes, increment) == Ok(votes + 1)

(* last_checkpoint.votes + 1 / - 1 on u32 with overflow checks on (the     *)
(* profile of an ink! contract build and of a debug build): 0 - 1 panics.  *)
(* votes never exceeds the number of checkpoints of the account, so the    *)
(* upper end of u32 is out of reach of + 1.                                *)
next_cp_votes(votes, increment) ==
    IF increment
    THEN Ok(votes + 1)
    ELSE IF votes - 1 < 0 THEN Panic ELSE Ok(votes - 1)

(* The new checkpoint written over the last one *)
new_checkpoint_idx_overwrite(n) == n - 1

(* The index the new checkpoint is written at *)
new_checkpoint_idx(n) == n

(* add_new_checkpoint_to_account that stores the new count before it       *)
(* computes the votes: a failing decrement leaves the count raised         *)
add_new_checkpoint_to_account_count_first(map, num, account, increment, cur_block) ==
    LET n == NumOf(num, account) IN
    IF n = 0
    THEN [panic |-> FALSE,
          map |-> MapInsert(map, <<account, 0>>, Checkpoint(cur_block, 1)),
          num |-> MapInsert(num, account, 1)]
    ELSE LET last == MapGet(map, <<account, n - 1>>) IN
         IF last = None THEN [panic |-> TRUE, map |-> map, num |-> num]
         ELSE LET v == next_cp_votes(last[1].votes, increment) IN
              IF v.panic
              THEN [panic |-> TRUE, map |-> map, num |-> MapInsert(num, account, n + 1)]
              ELSE [panic |-> FALSE,
                    map |-> MapInsert(map, <<account, new_checkpoint_idx(n)>>,
                                      Checkpoint(cur_block, v.val)),
                    num |-> MapInsert(num, account, n + 1)]

(* add_new_checkpoint_to_account that keeps the count as one counter for   *)
(* all accounts: the new count is stored under every known account        *)
add_new_checkpoint_to_account_shared_count(map, num, account, increment, cur_block) ==
    LET n == NumOf(num, account) IN
    IF n = 0
    THEN [panic |-> FALSE,
          map |-> MapInsert(map, <<account, 0>>, Checkpoint(cur_block, 1)),
          num |-> [x \in (DOMAIN num) \cup {account} |-> 1]]
    ELSE LET last == MapGet(map, <<account, n - 1>>) IN
         IF last = None THEN [panic |-> TRUE, map |-> map, num |-> num]
         ELSE LET v == next_cp_votes(last[1].votes, increment) IN
              IF v.panic THEN [panic |-> TRUE, map |-> map, num |-> num]
              ELSE [panic |-> FALSE,
                    map |-> MapInsert(map, <<account, new_checkpoint_idx(n)>>,
                                      Checkpoint(cur_block, v.val)),
                    num |-> [x \in (DOMAIN num) \cup {account} |-> n + 1]]

(* CheckpointData::add_new_checkpoint_to_account: the storage afterwards *)
add_new_checkpoint_to_account(map, num, account, increment, cur_block) ==
    LET n == NumOf(num, account) IN
    IF n = 0
    THEN [panic |-> FALSE,
          map |-> MapInsert(map, <<account, 0>>, Checkpoint(cur_block, 1)),
          num |-> MapInsert(num, account, 1)]
    ELSE LET last == MapGet(map, <<account, n - 1>>) IN
         IF last = None THEN [panic |-> TRUE, map |-> map, num |-> num]
         ELSE LET v == next_cp_votes(last[1].votes, increment) IN
              IF v.panic THEN [panic |-> TRUE, map |-> map, num |-> num]
              ELSE [panic |-> FALSE,
                    map |-> MapInsert(map, <<account, new_checkpoint_idx(n)>>,
                                      Checkpoint(cur_block, v.val)),
                    num |-> MapInsert(num, account, n + 1)]

----------------------------------------------------------------------------
(* Aaw vote queries (src/lib.rs), over the contract's two mappings *)

get_current_votes(map, num, account_id) ==
    LET n == NumOf(num, account_id) IN
    IF n = 0 THEN 0
    ELSE LET cpo == MapGet(map, <<account_id, n - 1>>) IN
         IF cpo = None THEN 0 ELSE cpo[1].votes

(* The while loop of get_votes_at_block *)
RECURSIVE votes_search(_, _, _, _, _)
votes_search(map, account_id, block, lower, upper) ==
    IF upper > lower
    THEN LET center == upper - ((upper - lower) \div 2)
             cpo == MapGet(map, <<account_id, center>>)
         IN  IF cpo = None THEN Panic
             ELSE IF cpo[1].from_block = block THEN Ok(cpo[1].votes)
             ELSE IF cpo[1].from_block < block
                  THEN votes_search(map, account_id, block, center, upper)
             ELSE IF center = 0 THEN Panic
                  ELSE votes_search(map, account_id, block, lower, center - 1)
    ELSE LET cpo == MapGet(map, <<account_id, lower>>)
         IN  IF cpo = None THEN Panic ELSE Ok(cpo[1].votes)

get_votes_at_block(map, num, account_id, block, cur_block) ==
    IF block > cur_block THEN Ok(0)
    ELSE LET n == NumOf(num, account_id) IN
         IF n = 0 THEN Ok(0)
         ELSE votes_search(map, account_id, block, 0, n - 1)

----------------------------------------------------------------------------
(* The record of the last call: its name, its arguments and its result *)

Call(op, args, res) == [op |-> op, args |-> args, res |-> res]

NoCall == Call("none", [account |-> "A"], Ok(None))

(* No binary search is running *)
Idle == [pc |-> "idle"]

(* The result of a message that returns Result<(), PSP34Error> *)
OkUnit == Ok("Ok")
ErrResult == Ok("Err")

----------------------------------------------------------------------------
(* Spec: the checkpoint store under its own API, driven by the host clock, *)
(* together with the vote queries of the Aaw contract.  The vote queries   *)
(* of src/lib.rs read the contract's own mappings, checkpoints and         *)
(* num_checkpoints, which no message of the contract writes.               *)

Init ==
    /\ account_to_checkpoint_map = EmptyMapping
    /\ num_of_checkpoints_per_account = EmptyMapping
    /\ current_block = 0
    /\ ret = NoCall
    /\ history = <<>>
    /\ balance = [a \in Accounts |-> 0]
    /\ psp34 = EmptyMapping
    /\ approvals = {}
    /\ owner = "A"
    /\ checkpoints = EmptyMapping
    /\ num_checkpoints = EmptyMapping
    /\ search = Idle

(* The host moves to the next block *)
Tick ==
    /\ current_block < MaxBlock
    /\ current_block' = current_block + 1
    /\ ret' = Call("tick", [block |-> current_block + 1], Ok(None))
    /\ UNCHANGED <<search, storeVars, hookVars, aawVars>>

AddNewCheckpoint(account, increment) ==
    /\ TotalCheckpoints(num_of_checkpoints_per_account) < MaxLen
    /\ LET r == add_new_checkpoint_to_account(account_to_checkpoint_map,
                    num_of_checkpoints_per_account, account, increment, current_block)
       IN  /\ account_to_checkpoint_map' = r.map
           /\ num_of_checkpoints_per_account' = r.num
           /\ ret' = Call("add_new_checkpoint_to_account",
                          [account |-> account, increment |-> increment,
                           current_block |-> current_block],
                          [panic |-> r.panic, val |-> None])
    /\ UNCHANGED <<search, current_block, hookVars, aawVars>>

GetLastCheckpoint(account) ==
    /\ ret' = Call("get_last_checkpoint", [account |-> account],
                   Ok(get_last_checkpoint(account_to_checkpoint_map,
                                          num_of_checkpoints_per_account, account)))
    /\ UNCHANGED <<search, storeVars, current_block, hookVars, aawVars>>

GetCheckpointAtBlock(account, wanted_block) ==
    /\ ret' = Call("get_checkpoint_at_block",
                   [account |-> account, wanted_block |-> wanted_block,
                    current_block |-> current_block],
                   get_checkpoint_at_block(account_to_checkpoint_map,
                        num_of_checkpoints_per_account, account, wanted_block,
                        current_block))
    /\ UNCHANGED <<search, storeVars, current_block, hookVars, aawVars>>

GetCurrentVotes(account) ==
    /\ ret' = Call("get_current_votes", [account |-> account],
                   Ok(get_current_votes(checkpoints, num_checkpoints, account)))
    /\ UNCHANGED <<search, storeVars, current_block, hookVars, aawVars>>

GetVotesAtBlock(account, block) ==
    /\ ret' = Call("get_votes_at_block",
                   [account |-> account, block |-> block,
                    current_block |-> current_block],
                   get_votes_at_block(checkpoints, num_checkpoints, account, block,
                                      current_block))
    /\ UNCHANGED <<search, storeVars, current_block, hookVars, aawVars>>

(* The read-only calls of CheckpointData *)
StoreQueries ==
    \/ \E a \in Accounts : GetLastCheckpoint(a)
    \/ \E a \in Accounts, b \in 0..MaxBlock + 1 : GetCheckpointAtBlock(a, b)

(* The read-only vote messages of Aaw *)
VoteQueries ==
    \/ \E a \in Accounts : GetCurrentVotes(a)
    \/ \E a \in Accounts, b \in 0..MaxBlock + 1 : GetVotesAtBlock(a, b)

Queries ==
    \/ StoreQueries
    \/ VoteQueries

Next ==
    \/ Tick
    \/ \E a \in Accounts, inc \in BOOLEAN : AddNewCheckpoint(a, inc)
    \/ Queries

Spec == Init /\ [][Next]_vars

----------------------------------------------------------------------------
(* SpecHook: the store driven by the weight update hook.  The token ledger *)
(* notifies the hook after it has committed a balance change, so a         *)
(* transfer is notified only for a sender that held a token.               *)

Event(kind, from, to, block) == [kind |-> kind, from |-> from, to |-> to, block |-> block]

(* on_mint(recipient, time_step) *)
on_mint(map, num, recipient, time_step) ==
    add_new_checkpoint_to_account(map, num, recipient, TRUE, time_step)

(* on_transfer(sender, recipient, time_step): the sender's decreasing      *)
(* append, then the recipient's increasing one.  A panic in either append  *)
(* ends the call there, with the storage as that append left it: no        *)
(* rollback by the host is assumed.                                        *)
on_transfer(map, num, sender, recipient, time_step) ==
    LET r1 == add_new_checkpoint_to_account(map, num, sender, FALSE, time_step) IN
    IF r1.panic THEN r1
    ELSE add_new_checkpoint_to_account(r1.map, r1.num, recipient, TRUE, time_step)

OnMint(recipient) ==
    /\ Len(history) < MaxEvents
    /\ LET r == on_mint(account_to_checkpoint_map, num_of_checkpoints_per_account,
                        recipient, current_block)
       IN  /\ account_to_checkpoint_map' = r.map
           /\ num_of_checkpoints_per_account' = r.num
           /\ ret' = Call("on_mint",
                          [account |-> recipient, current_block |-> current_block],
                          [panic |-> r.panic, val |-> None])
           /\ history' = IF r.panic THEN history
                         ELSE Append(history,
                                     Event("mint", recipient, recipient, current_block))
           /\ balance' = IF r.panic THEN balance
                         ELSE [balance EXCEPT ![recipient] = @ + 1]
    /\ UNCHANGED <<search, current_block, aawVars>>

OnTransfer(sender, recipient) ==
    /\ Len(history) < MaxEvents
    /\ balance[sender] >= 1
    /\ LET r == on_transfer(account_to_checkpoint_map, num_of_checkpoints_per_account,
                            sender, recipient, current_block)
       IN  /\ account_to_checkpoint_map' = r.map
           /\ num_of_checkpoints_per_account' = r.num
           /\ ret' = Call("on_transfer",
                          [account |-> sender, to |-> recipient,
                           current_block |-> current_block],
                          [panic |-> r.panic, val |-> None])
           /\ history' = IF r.panic THEN history
                         ELSE Append(history,
                                     Event("transfer", sender, recipient, current_block))
           /\ balance' = IF r.panic THEN balance
                         ELSE [[balance EXCEPT ![sender] = @ - 1]
                                        EXCEPT ![recipient] = @ + 1]
    /\ UNCHANGED <<search, current_block, aawVars>>

NextHook ==
    \/ Tick
    \/ \E a \in Accounts : OnMint(a)
    \/ \E a \in Accounts, b \in Accounts : OnTransfer(a, b)
    \/ Queries

SpecHook == Init /\ [][NextHook]_vars

----------------------------------------------------------------------------
(* SpecTransfer: the raw store API of Spec, plus the hook's on_transfer    *)
(* called for any sender, also one whose weight is 0 or who has no log.    *)

HookTransfer(sender, recipient) ==
    /\ TotalCheckpoints(num_of_checkpoints_per_account) + 2 <= MaxLen
    /\ LET r == on_transfer(account_to_checkpoint_map, num_of_checkpoints_per_account,
                            sender, recipient, current_block)
       IN  /\ account_to_checkpoint_map' = r.map
           /\ num_of_checkpoints_per_account' = r.num
           /\ ret' = Call("on_transfer",
                          [account |-> sender, to |-> recipient,
                           current_block |-> current_block],
                          [panic |-> r.panic, val |-> None])
    /\ UNCHANGED <<search, current_block, hookVars, aawVars>>

NextTransfer ==
    \/ Next
    \/ \E a \in Accounts, b \in Accounts : HookTransfer(a, b)

SpecTransfer == Init /\ [][NextTransfer]_vars

----------------------------------------------------------------------------
(* SpecAaw: the Aaw contract (src/lib.rs).  PSP34Data is the external      *)
(* token ledger: psp34 maps each minted token id to its owner.             *)

TokenIds == 1..MaxTokens

(* PSP34Data::mint: the next token id goes to account *)
psp34_mint(data, account) ==
    LET id == Cardinality(DOMAIN data) + 1 IN
    [ok |-> TRUE, data |-> MapInsert(data, id, account)]

(* PSP34Data::transfer / transfer_from: the token moves when `from` owns it *)
psp34_transfer(data, from, to, id) ==
    IF MapGet(data, id) = Some(from)
    THEN [ok |-> TRUE, data |-> MapInsert(data, id, to)]
    ELSE [ok |-> FALSE, data |-> data]

(* PSP34Data::approve: record or remove (caller, operator, id) *)
psp34_approve(data, caller, operator, id, approved) ==
    [ok |-> TRUE,
     data |-> IF approved THEN data \cup {<<caller, operator, id>>}
              ELSE data \ {<<caller, operator, id>>}]

(* Aaw::mint *)
AawMint(caller, account) ==
    /\ Cardinality(DOMAIN psp34) < MaxTokens
    /\ IF caller # owner
       THEN /\ ret' = Call("mint", [caller |-> caller, account |-> account], ErrResult)
            /\ UNCHANGED psp34
       ELSE LET r == psp34_mint(psp34, account) IN
            /\ psp34' = r.data
            /\ ret' = Call("mint", [caller |-> caller, account |-> account],
                           IF r.ok THEN OkUnit ELSE ErrResult)
    /\ UNCHANGED <<search, storeVars, current_block, hookVars, owner, checkpoints,
                   num_checkpoints, approvals>>

(* Aaw::transfer *)
AawTransfer(caller, to, id) ==
    /\ LET r == psp34_transfer(psp34, caller, to, id) IN
       /\ psp34' = r.data
       /\ ret' = Call("transfer", [from |-> caller, to |-> to, id |-> id],
                      IF r.ok THEN OkUnit ELSE ErrResult)
    /\ UNCHANGED <<search, storeVars, current_block, hookVars, owner, checkpoints,
                   num_checkpoints, approvals>>

(* Aaw::transfer_from *)
AawTransferFrom(from, to, id) ==
    /\ LET r == psp34_transfer(psp34, from, to, id) IN
       /\ psp34' = r.data
       /\ ret' = Call("transfer_from", [from |-> from, to |-> to, id |-> id],
                      IF r.ok THEN OkUnit ELSE ErrResult)
    /\ UNCHANGED <<search, storeVars, current_block, hookVars, owner, checkpoints,
                   num_checkpoints, approvals>>

(* Aaw::mint_with_attributes: the owner test of mint, then the ledger's    *)
(* mint_with_attributes; the attributes are metadata of the new token      *)
AawMintWithAttributes(caller, account) ==
    /\ Cardinality(DOMAIN psp34) < MaxTokens
    /\ IF caller # owner
       THEN /\ ret' = Call("mint_with_attributes",
                           [caller |-> caller, account |-> account], ErrResult)
            /\ UNCHANGED psp34
       ELSE LET r == psp34_mint(psp34, account) IN
            /\ psp34' = r.data
            /\ ret' = Call("mint_with_attributes",
                           [caller |-> caller, account |-> account],
                           IF r.ok THEN OkUnit ELSE ErrResult)
    /\ UNCHANGED <<search, storeVars, current_block, hookVars, owner, checkpoints,
                   num_checkpoints, approvals>>

(* Aaw::approve: the caller grants or withdraws an operator's approval,   *)
(* for one token (Some(id)) or for all its tokens (None)                   *)
AawApprove(caller, operator, id, approved) ==
    /\ LET r == psp34_approve(approvals, caller, operator, id, approved) IN
       /\ Cardinality(r.data) <= MaxApprovals
       /\ approvals' = r.data
       /\ ret' = Call("approve",
                      [caller |-> caller, operator |-> operator, id |-> id,
                       approved |-> approved],
                      IF r.ok THEN OkUnit ELSE ErrResult)
    /\ UNCHANGED <<search, storeVars, current_block, hookVars, psp34, owner,
                   checkpoints, num_checkpoints>>

(* Aaw::new: the deployer becomes the owner *)
InitAaw ==
    /\ account_to_checkpoint_map = EmptyMapping
    /\ num_of_checkpoints_per_account = EmptyMapping
    /\ current_block = 0
    /\ ret = NoCall
    /\ history = <<>>
    /\ balance = [a \in Accounts |-> 0]
    /\ psp34 = EmptyMapping
    /\ approvals = {}
    /\ owner \in Accounts
    /\ checkpoints = EmptyMapping
    /\ num_checkpoints = EmptyMapping
    /\ search = Idle

NextAaw ==
    \/ Tick
    \/ \E c \in Accounts, a \in Accounts : AawMint(c, a)
    \/ \E c \in Accounts, a \in Accounts, id \in TokenIds : AawTransfer(c, a, id)
    \/ \E f \in Accounts, a \in Accounts, id \in TokenIds : AawTransferFrom(f, a, id)
    \/ \E c \in Accounts, a \in Accounts : AawMintWithAttributes(c, a)
    \/ \E c \in Accounts, o \in Accounts, id \in {None} \cup {Some(t) : t \in TokenIds},
          approved \in BOOLEAN : AawApprove(c, o, id, approved)
    \/ VoteQueries

SpecAaw == InitAaw /\ [][NextAaw]_vars

----------------------------------------------------------------------------
(* SpecSearch: the binary search of get_checkpoint_at_block and of         *)
(* get_votes_at_block, one loop iteration per step.  Calls run to          *)
(* completion one at a time, so no mapping changes while a search is in    *)
(* its loop.  search.iter counts the iterations made, search.reads lists   *)
(* the indices read.  A behaviour follows one search to its return: the    *)
(* searches are read-only, so what a later call meets is a state that an   *)
(* earlier step of the behaviour has already shown.                        *)
(*                                                                         *)
(* get_checkpoint_at_block searches the store, which the appends build.    *)
(* get_votes_at_block searches Aaw.checkpoints / Aaw.num_checkpoints.  No  *)
(* message writes these two mappings, so a deployed contract only ever     *)
(* holds them empty; here they are the function's inputs, drawn in         *)
(* InitSearch from the logs of one account with count and entries in       *)
(* step, from_block non-decreasing and not after the current block, and    *)
(* votes starting at 1 and moving by one.                                  *)

SearchFns == {"get_checkpoint_at_block", "get_votes_at_block"}

(* center biased toward lower *)
center_of_biased_low(lower, upper) == lower + ((upper - lower) \div 2)

(* let center = upper - (upper - lower) / 2 *)
center_of(lower, upper) == upper - ((upper - lower) \div 2)

(* the search started with upper = num_checkpoints *)
search_bounds_off_by_one(n) == [lower |-> 0, upper |-> n]

(* let mut lower = 0; let mut upper = num_checkpoints - 1 *)
search_bounds(n) == [lower |-> 0, upper |-> n - 1]

(* What a function returns for the checkpoint it found, or for none *)
search_result(fn, cpo) ==
    IF fn = "get_votes_at_block"
    THEN IF cpo = None THEN Ok(0) ELSE Ok(cpo[1].votes)
    ELSE Ok(cpo)

(* A call that has returned, or panicked, after `reads` *)
Returned(fn, account, wanted, n, res, exit, lower, upper, iter, reads) ==
    [pc |-> IF res.panic THEN "panic" ELSE "done", fn |-> fn, account |-> account,
     wanted |-> wanted, n |-> n, lower |-> lower, upper |-> upper, iter |-> iter,
     reads |-> reads, exit |-> exit, res |-> res]

(* The mappings each function reads *)
SearchMap(fn) ==
    IF fn = "get_votes_at_block" THEN checkpoints ELSE account_to_checkpoint_map
SearchNum(fn) ==
    IF fn = "get_votes_at_block" THEN num_checkpoints ELSE num_of_checkpoints_per_account

(* The part of either function before its loop *)
search_begin(fn, map, num, account, wanted, cur_block) ==
    LET n == NumOf(num, account) IN
    IF wanted > cur_block
    THEN Returned(fn, account, wanted, n, search_result(fn, None), "future", 0, 0, 0, <<>>)
    ELSE IF n = 0
    THEN Returned(fn, account, wanted, n, search_result(fn, None), "empty", 0, 0, 0, <<>>)
    ELSE IF fn = "get_checkpoint_at_block" /\ MapGet(map, <<account, 0>>) = None
    THEN Returned(fn, account, wanted, n, Panic, "panic", 0, 0, 0, <<0>>)
    ELSE IF fn = "get_checkpoint_at_block" /\ map[<<account, 0>>].from_block > wanted
    THEN Returned(fn, account, wanted, n, search_result(fn, None), "before", 0, 0, 0, <<0>>)
    ELSE [pc |-> "loop", fn |-> fn, account |-> account, wanted |-> wanted, n |-> n,
          lower |-> search_bounds(n).lower, upper |-> search_bounds(n).upper,
          iter |-> 0,
          reads |-> IF fn = "get_checkpoint_at_block" THEN <<0>> ELSE <<>>,
          exit |-> "none", res |-> Ok(None)]

(* One test of `while upper > lower` and, when it holds, one loop body;    *)
(* when it fails, the read of the checkpoint at lower and the return       *)
search_step(map, s) ==
    IF s.upper > s.lower
    THEN LET center == center_of(s.lower, s.upper)
             cpo == MapGet(map, <<s.account, center>>)
             reads == Append(s.reads, center)
         IN  IF cpo = None
             THEN Returned(s.fn, s.account, s.wanted, s.n, Panic, "panic",
                           s.lower, s.upper, s.iter + 1, reads)
             ELSE IF cpo[1].from_block = s.wanted
             THEN Returned(s.fn, s.account, s.wanted, s.n, search_result(s.fn, cpo),
                           "exact", s.lower, s.upper, s.iter + 1, reads)
             ELSE IF cpo[1].from_block < s.wanted
             THEN [s EXCEPT !.lower = center, !.iter = @ + 1, !.reads = reads]
             ELSE IF center = 0
             THEN Returned(s.fn, s.account, s.wanted, s.n, Panic, "panic",
                           s.lower, s.upper, s.iter + 1, reads)
             ELSE [s EXCEPT !.upper = center - 1, !.iter = @ + 1, !.reads = reads]
    ELSE LET cpo == MapGet(map, <<s.account, s.lower>>)
             reads == Append(s.reads, s.lower)
         IN  Returned(s.fn, s.account, s.wanted, s.n,
                      IF cpo = None THEN Panic ELSE search_result(s.fn, cpo),
                      IF cpo = None THEN "panic" ELSE "end",
                      s.lower, s.upper, s.iter, reads)

(* The call record once the function has returned *)
RetOf(s, cur_block) ==
    IF s.pc = "loop" THEN ret
    ELSE Call(s.fn,
              IF s.fn = "get_votes_at_block"
              THEN [account |-> s.account, block |-> s.wanted, current_block |-> cur_block]
              ELSE [account |-> s.account, wanted_block |-> s.wanted,
                    current_block |-> cur_block],
              s.res)

SearchBegin(fn, account, wanted) ==
    /\ search.pc = "idle"
    /\ search' = search_begin(fn, SearchMap(fn), SearchNum(fn), account, wanted,
                              current_block)
    /\ ret' = RetOf(search', current_block)
    /\ UNCHANGED <<storeVars, current_block, hookVars, aawVars>>

SearchStep ==
    /\ search.pc = "loop"
    /\ search' = search_step(SearchMap(search.fn), search)
    /\ ret' = RetOf(search', current_block)
    /\ UNCHANGED <<storeVars, current_block, hookVars, aawVars>>

(* The store is built while no search is running; MaxLen bounds the       *)
(* checkpoints of the store and of the given log together                  *)
BuildStore ==
    /\ search.pc = "idle"
    /\ \/ Tick
       \/ /\ TotalCheckpoints(num_of_checkpoints_per_account)
                + TotalCheckpoints(num_checkpoints) < MaxLen
          /\ \E a \in Accounts, inc \in BOOLEAN : AddNewCheckpoint(a, inc)

(* The from_block and votes columns of a log of n checkpoints *)
BlocksOf(n, cur_block) ==
    {b \in [1..n -> 0..cur_block] : \A i \in 1..(n - 1) : b[i] <= b[i + 1]}
VotesOf(n) ==
    {v \in [1..n -> 0..n] :
        /\ n >= 1 => v[1] = 1
        /\ \A i \in 2..n : v[i] = v[i - 1] + 1 \/ v[i] = v[i - 1] - 1}

(* The two mappings that hold the log (blocks, votes) for account a *)
LogMapping(a, n, blocks, votes) ==
    [k \in {<<a, i>> : i \in 0..(n - 1)} |-> Checkpoint(blocks[k[2] + 1], votes[k[2] + 1])]
LogCount(a, n) == IF n = 0 THEN EmptyMapping ELSE [x \in {a} |-> n]

InitSearch ==
    /\ account_to_checkpoint_map = EmptyMapping
    /\ num_of_checkpoints_per_account = EmptyMapping
    /\ current_block \in 0..MaxBlock
    /\ ret = NoCall
    /\ history = <<>>
    /\ balance = [a \in Accounts |-> 0]
    /\ psp34 = EmptyMapping
    /\ approvals = {}
    /\ owner = "A"
    /\ \E a \in Accounts, n \in 0..MaxLen :
          \E blocks \in BlocksOf(n, current_block), votes \in VotesOf(n) :
              /\ checkpoints = LogMapping(a, n, blocks, votes)
              /\ num_checkpoints = LogCount(a, n)
    /\ search = Idle

NextSearch ==
    \/ BuildStore
    \/ \E fn \in SearchFns, a \in Accounts, b \in 0..MaxBlock + 1 : SearchBegin(fn, a, b)
    \/ SearchStep

SpecSearch == InitSearch /\ [][NextSearch]_vars

----------------------------------------------------------------------------
(* Reading the store *)

Count(a) == NumOf(num_of_checkpoints_per_account, a)
Cp(a, i) == account_to_checkpoint_map[<<a, i>>]
Indices(a) == {i \in 0..(Count(a) - 1) : <<a, i>> \in DOMAIN account_to_checkpoint_map}
AtOrBefore(a, t) == {i \in Indices(a) : Cp(a, i).from_block <= t}
MaxOf(S) == CHOOSE x \in S : \A y \in S : y <= x
AtBlock(a, t) ==
    get_checkpoint_at_block(account_to_checkpoint_map, num_of_checkpoints_per_account,
                            a, t, current_block)
VotesAtBlock(a, t) ==
    get_votes_at_block(checkpoints, num_checkpoints, a, t, current_block)
CurrentVotes(a) == get_current_votes(checkpoints, num_checkpoints, a)
LastCheckpoint(a) ==
    get_last_checkpoint(account_to_checkpoint_map, num_of_checkpoints_per_account, a)

(* Query API over the store: the weight now and the weight at a block *)
current_weight(a) == IF LastCheckpoint(a) = None THEN 0 ELSE LastCheckpoint(a)[1].votes
weight_at(a, t) == IF AtBlock(a, t).val = None THEN 0 ELSE AtBlock(a, t).val[1].votes

(* Events of the history that raise / lower the weight of account a *)
Increases(a) == {i \in 1..Len(history) : history[i].to = a}
Decreases(a) == {i \in 1..Len(history) :
                    history[i].kind = "transfer" /\ history[i].from = a}

(* Votes read by the Aaw contract's own query *)
AawCurrentVotes(a) == CurrentVotes(a)

(* The step just taken was add_new_checkpoint_to_account(a, inc, _) *)
AddStep(a, inc) ==
    /\ ret'.op = "add_new_checkpoint_to_account"
    /\ ret'.args.account = a
    /\ ret'.args.increment = inc

----------------------------------------------------------------------------
(* C1: on a log sorted by from_block and for wanted_block <= current_block, *)
(* get_checkpoint_at_block returns a checkpoint of the log whose from_block *)
(* is the greatest one <= wanted_block, and None exactly when the log holds *)
(* no checkpoint with from_block <= wanted_block.                           *)
C1_FloorQuery ==
    \A a \in Accounts, w \in 0..current_block :
        LET r == AtBlock(a, w)
            below == AtOrBefore(a, w)
        IN  /\ ~r.panic
            /\ (r.val = None) <=> (below = {})
            /\ r.val # None =>
                 /\ \E i \in below : Cp(a, i) = r.val[1]
                 /\ r.val[1].from_block = MaxOf({Cp(a, i).from_block : i \in below})

(* A floor query that is no exact match was answered from a log of three   *)
(* checkpoints, two of them in the same block.                             *)
C1_Witness ==
    /\ ret.op = "get_checkpoint_at_block"
    /\ ret.args.wanted_block <= ret.args.current_block
    /\ Count(ret.args.account) >= 3
    /\ Cp(ret.args.account, 0).from_block = Cp(ret.args.account, 1).from_block
    /\ ret.res.val # None
    /\ ret.res.val[1].from_block < ret.args.wanted_block
    /\ \E i \in Indices(ret.args.account) :
           Cp(ret.args.account, i).from_block > ret.args.wanted_block

(* C2 (as claimed): weight_at(account, t) is the weight of the last        *)
(* (highest-index) checkpoint whose from_block is <= t, also when several  *)
(* checkpoints share a block.                                              *)
C2_LastEntryOfBlock ==
    \A a \in Accounts, t \in 0..current_block :
        LET r == AtBlock(a, t)
            below == AtOrBefore(a, t)
        IN  (below # {}) =>
                /\ ~r.panic
                /\ r.val # None
                /\ r.val[1].votes = Cp(a, MaxOf(below)).votes

(* C5 (as claimed): get_votes_at_block returns 0 for an account without    *)
(* checkpoints and for a block before the account's first checkpoint, and  *)
(* so agrees with the votes of get_checkpoint_at_block (0 when None).      *)
C5_VotesAgreeWithCheckpoint ==
    \A a \in Accounts, b \in 0..current_block :
        LET v == VotesAtBlock(a, b)
            r == AtBlock(a, b)
        IN  /\ ~v.panic
            /\ (Count(a) = 0 \/ b < Cp(a, 0).from_block) => v.val = 0
            /\ v.val = IF r.val = None THEN 0 ELSE r.val[1].votes

(* C6: a decreasing append for an account whose last checkpoint has weight *)
(* 0 fails: it writes no checkpoint and leaves log and count unchanged.    *)
C6_DecrementAtZeroFails ==
    [][\A a \in Accounts :
          (AddStep(a, FALSE) /\ Count(a) >= 1 /\ Cp(a, Count(a) - 1).votes = 0)
          => /\ ret'.res.panic
             /\ UNCHANGED storeVars]_vars

(* The failed decrement has happened: the account's last weight is 0 and   *)
(* the call panicked.                                                      *)
C6_Witness ==
    /\ ret.op = "add_new_checkpoint_to_account"
    /\ ~ret.args.increment
    /\ ret.res.panic
    /\ Count(ret.args.account) >= 2
    /\ Cp(ret.args.account, Count(ret.args.account) - 1).votes = 0

(* C7 (as claimed): a decreasing append for an account with no checkpoint  *)
(* fails and writes nothing; an increasing one writes                      *)
(* {from_block: current_block, votes: 1} at index 0 and sets the count 1.  *)
C7_DecrementOnEmptyFails ==
    [][\A a \in Accounts :
          /\ (AddStep(a, FALSE) /\ Count(a) = 0)
             => /\ ret'.res.panic
                /\ UNCHANGED storeVars
          /\ (AddStep(a, TRUE) /\ Count(a) = 0)
             => /\ ~ret'.res.panic
                /\ num_of_checkpoints_per_account' =
                       MapInsert(num_of_checkpoints_per_account, a, 1)
                /\ account_to_checkpoint_map' =
                       MapInsert(account_to_checkpoint_map, <<a, 0>>,
                                 Checkpoint(current_block, 1))]_vars

(* C9: the log is append-only: no stored checkpoint ever changes, no count *)
(* ever decreases, and a successful append writes exactly one entry, at    *)
(* the index of the old count, and raises the count by one.                *)
C9_AppendOnly ==
    [][/\ \A k \in DOMAIN account_to_checkpoint_map :
              /\ k \in DOMAIN account_to_checkpoint_map'
              /\ account_to_checkpoint_map'[k] = account_to_checkpoint_map[k]
       /\ \A a \in Accounts :
              /\ NumOf(num_of_checkpoints_per_account', a) >= Count(a)
              /\ (AddStep(a, TRUE) \/ AddStep(a, FALSE)) /\ ~ret'.res.panic
                 => /\ DOMAIN account_to_checkpoint_map' =
                           DOMAIN account_to_checkpoint_map \cup {<<a, Count(a)>>}
                    /\ <<a, Count(a)>> \notin DOMAIN account_to_checkpoint_map
                    /\ NumOf(num_of_checkpoints_per_account', a) = Count(a) + 1
                    /\ \A b \in Accounts \ {a} :
                           NumOf(num_of_checkpoints_per_account', b) = Count(b)]_vars

(* A successful append to a log that already held two checkpoints *)
C9_Witness ==
    /\ ret.op = "add_new_checkpoint_to_account"
    /\ ~ret.res.panic
    /\ Count(ret.args.account) >= 3

(* C10 (as claimed): get_last_checkpoint is None iff the account has no    *)
(* checkpoint; after a successful append it is the checkpoint of that      *)
(* append: from_block its current_block, votes the previous last weight    *)
(* + 1 (increment) or - 1 (decrement); get_current_votes is its votes, or  *)
(* 0 when there is none.                                                   *)
C10_LastCheckpointIsNewest ==
    [][\A a \in Accounts :
          /\ (LastCheckpoint(a) = None) <=> (Count(a) = 0)
          /\ CurrentVotes(a) =
                 IF LastCheckpoint(a) = None THEN 0 ELSE LastCheckpoint(a)[1].votes
          /\ \A inc \in BOOLEAN :
                 (AddStep(a, inc) /\ ~ret'.res.panic)
                 => get_last_checkpoint(account_to_checkpoint_map',
                                        num_of_checkpoints_per_account', a)
                    = Some(Checkpoint(current_block,
                                      IF inc THEN current_weight(a) + 1
                                             ELSE current_weight(a) - 1))]_vars

(* C3: after any sequence of mint / transfer events notified in clock      *)
(* order, the current weight of every account (votes of                    *)
(* get_last_checkpoint, 0 when None) is the number of its weight-          *)
(* increasing events minus the number of its weight-decreasing events.     *)
C3_WeightIsNetCount ==
    \A a \in Accounts :
        current_weight(a) = Cardinality(Increases(a)) - Cardinality(Decreases(a))

(* Three events, a transfer among them, have been applied, and the sender  *)
(* of the transfer is back at weight 0 with a log of two checkpoints.      *)
C3_Witness ==
    /\ Len(history) = 3
    /\ \E i \in 1..Len(history) :
           /\ history[i].kind = "transfer"
           /\ history[i].from # history[i].to
           /\ Count(history[i].from) = 2
           /\ current_weight(history[i].from) = 0
           /\ current_weight(history[i].to) = 2

(* C4 (as claimed): after mint to A at step 1, transfer A -> B at step 2   *)
(* and mint to A at step 2, queried at a current step >= 2:                *)
(* weight_at(A, 1) = 1, weight_at(A, 2) = 1, weight_at(B, 1) = 0,          *)
(* weight_at(B, 2) = 1, current_weight(A) = 1, current_weight(B) = 1.      *)
C4_EndToEndScenario ==
    (/\ history = <<Event("mint", "A", "A", 1),
                    Event("transfer", "A", "B", 2),
                    Event("mint", "A", "A", 2)>>
     /\ current_block >= 2)
    => /\ weight_at("A", 1) = 1
       /\ weight_at("A", 2) = 1
       /\ weight_at("B", 1) = 0
       /\ weight_at("B", 2) = 1
       /\ current_weight("A") = 1
       /\ current_weight("B") = 1

(* C8 (as claimed): on the Aaw contract a successful mint(account) raises  *)
(* get_current_votes(account) by one, and a successful transfer or         *)
(* transfer_from of a token from X to Y, X # Y, lowers get_current_votes(X)*)
(* by one and raises get_current_votes(Y) by one.                          *)
C8_BalanceChangeMovesVotes ==
    [][\A x \in Accounts, y \in Accounts :
          /\ (ret'.op = "mint" /\ ret'.res = OkUnit /\ ret'.args.account = x)
             => AawCurrentVotes(x)' = AawCurrentVotes(x) + 1
          /\ (ret'.op \in {"transfer", "transfer_from"} /\ ret'.res = OkUnit
                  /\ ret'.args.from = x /\ ret'.args.to = y /\ x # y)
             => /\ AawCurrentVotes(x)' = AawCurrentVotes(x) - 1
                /\ AawCurrentVotes(y)' = AawCurrentVotes(y) + 1]_vars


(* C11: a query for a block after the current block yields no data,        *)
(* whatever the history: get_checkpoint_at_block returns None and          *)
(* get_votes_at_block returns 0.                                           *)
C11_FutureQueryNoData ==
    \A a \in Accounts, b \in (current_block + 1)..(MaxBlock + 1) :
        /\ AtBlock(a, b) = Ok(None)
        /\ VotesAtBlock(a, b) = Ok(0)

(* A future block was queried for an account whose log in the store holds  *)
(* checkpoints with a positive current weight, and the answer was None;    *)
(* the contract's mappings hold a log with a positive current weight too.  *)
C11_Witness ==
    /\ ret.op = "get_checkpoint_at_block"
    /\ ret.args.wanted_block > ret.args.current_block
    /\ ret.args.current_block = current_block
    /\ Count(ret.args.account) >= 2
    /\ current_weight(ret.args.account) >= 1
    /\ ret.res = Ok(None)
    /\ \E b \in Accounts : NumOf(num_checkpoints, b) >= 2 /\ CurrentVotes(b) >= 1


(* C12: a transfer is atomic for the store: on_transfer(sender, recipient) *)
(* ends either with exactly one new checkpoint in each of the two logs, or *)
(* with no change to any log or count; when the sender's decrement fails   *)
(* (last weight 0), nothing is recorded for the recipient.                 *)
C12_TransferAtomic ==
    [][\A s \in Accounts, r \in Accounts :
          (ret'.op = "on_transfer" /\ ret'.args.account = s /\ ret'.args.to = r)
          => /\ \/ ret'.res.panic /\ UNCHANGED storeVars
                \/ /\ ~ret'.res.panic
                   /\ \A k \in DOMAIN account_to_checkpoint_map :
                          /\ k \in DOMAIN account_to_checkpoint_map'
                          /\ account_to_checkpoint_map'[k] = account_to_checkpoint_map[k]
                   /\ \A a \in Accounts \ {s, r} :
                          NumOf(num_of_checkpoints_per_account', a) = Count(a)
                   /\ IF s # r
                      THEN /\ NumOf(num_of_checkpoints_per_account', s) = Count(s) + 1
                           /\ NumOf(num_of_checkpoints_per_account', r) = Count(r) + 1
                           /\ DOMAIN account_to_checkpoint_map' =
                                  DOMAIN account_to_checkpoint_map
                                      \cup {<<s, Count(s)>>, <<r, Count(r)>>}
                      ELSE /\ NumOf(num_of_checkpoints_per_account', s) = Count(s) + 2
                           /\ DOMAIN account_to_checkpoint_map' =
                                  DOMAIN account_to_checkpoint_map
                                      \cup {<<s, Count(s)>>, <<s, Count(s) + 1>>}
             /\ (Count(s) >= 1 /\ Cp(s, Count(s) - 1).votes = 0)
                => ret'.res.panic /\ UNCHANGED storeVars]_vars

(* A transfer whose sender was at weight 0 has failed, and the recipient,   *)
(* another account, still has no log.                                      *)
C12_Witness ==
    /\ ret.op = "on_transfer"
    /\ ret.res.panic
    /\ ret.args.account # ret.args.to
    /\ Count(ret.args.account) >= 2
    /\ Cp(ret.args.account, Count(ret.args.account) - 1).votes = 0
    /\ Count(ret.args.to) = 0


(* C13: with appends made under the host's non-decreasing clock, every     *)
(* account's log has non-decreasing from_block values: for i < j < count,  *)
(* log[i].from_block <= log[j].from_block (ties allowed).                  *)
C13_FromBlockNonDecreasing ==
    \A a \in Accounts :
        \A i \in 0..(Count(a) - 1), j \in 0..(Count(a) - 1) :
            i < j => /\ <<a, i>> \in DOMAIN account_to_checkpoint_map
                     /\ <<a, j>> \in DOMAIN account_to_checkpoint_map
                     /\ Cp(a, i).from_block <= Cp(a, j).from_block

(* A log of three checkpoints, two written in the same block and one in a  *)
(* later block, the last of them by the append just made.                  *)
C13_Witness ==
    /\ ret.op = "add_new_checkpoint_to_account"
    /\ ~ret.res.panic
    /\ Count(ret.args.account) = 3
    /\ Cp(ret.args.account, 0).from_block = Cp(ret.args.account, 1).from_block
    /\ Cp(ret.args.account, 1).from_block < Cp(ret.args.account, 2).from_block
    /\ Cp(ret.args.account, 2).from_block = ret.args.current_block


(* C14 (as claimed): for every account with a checkpoint, the checkpoint   *)
(* at index 0 has weight >= 1 and was written by a weight-increasing       *)
(* append, never by a decreasing one.                                      *)
C14_FirstCheckpointFromIncrease ==
    [][\A a \in Accounts :
          /\ Count(a)' >= 1 => Cp(a, 0)'.votes >= 1
          /\ (Count(a) = 0 /\ Count(a)' >= 1) => AddStep(a, TRUE)]_vars


(* The calls that only read the store *)
QueryOps == {"get_last_checkpoint", "get_checkpoint_at_block",
             "get_current_votes", "get_votes_at_block"}

(* The log and the count of account b are the same before and after *)
LogUnchanged(b) ==
    /\ NumOf(num_of_checkpoints_per_account', b) = Count(b)
    /\ \A k \in (DOMAIN account_to_checkpoint_map) \cup (DOMAIN account_to_checkpoint_map') :
           k[1] = b => /\ k \in DOMAIN account_to_checkpoint_map
                       /\ k \in DOMAIN account_to_checkpoint_map'
                       /\ account_to_checkpoint_map'[k] = account_to_checkpoint_map[k]

(* C16: the four queries leave every log and every count unchanged, and    *)
(* add_new_checkpoint_to_account(a, ..) leaves the log and the count of    *)
(* every account other than a unchanged.                                   *)
C16_QueriesReadOnlyAppendLocal ==
    [][/\ ret'.op \in QueryOps => UNCHANGED <<storeVars, checkpoints, num_checkpoints>>
       /\ \A a \in Accounts :
              (AddStep(a, TRUE) \/ AddStep(a, FALSE))
              => \A b \in Accounts \ {a} : LogUnchanged(b)]_vars

(* An append to one account has succeeded while the other account has a    *)
(* log of its own.                                                         *)
C16_Witness ==
    /\ ret.op = "add_new_checkpoint_to_account"
    /\ ~ret.res.panic
    /\ Count(ret.args.account) >= 2
    /\ \E b \in Accounts \ {ret.args.account} : Count(b) >= 2

(* C17: count and log agree: a checkpoint is stored at (account, i) iff    *)
(* i < count(account).  So no unwrap() meets an absent entry: the two      *)
(* lookups never panic, and the append panics only on the decrement of a   *)
(* last weight 0.                                                          *)
C17_CountMatchesLog ==
    /\ DOMAIN account_to_checkpoint_map =
           UNION {{<<a, i>> : i \in 0..(Count(a) - 1)} : a \in Accounts}
    /\ DOMAIN num_of_checkpoints_per_account \subseteq Accounts
    /\ \A a \in Accounts, b \in 0..(MaxBlock + 1) :
           /\ ~AtBlock(a, b).panic
           /\ ~VotesAtBlock(a, b).panic
    /\ (ret.op = "add_new_checkpoint_to_account" /\ ret.res.panic)
       => /\ ~ret.args.increment
          /\ Count(ret.args.account) >= 1
          /\ Cp(ret.args.account, Count(ret.args.account) - 1).votes = 0

(* A lookup that had to probe the middle of a three-entry log returned a   *)
(* checkpoint, while the other account has a log too.                      *)
C17_Witness ==
    /\ ret.op = "get_checkpoint_at_block"
    /\ ~ret.res.panic
    /\ ret.res.val # None
    /\ Count(ret.args.account) >= 3
    /\ \E b \in Accounts \ {ret.args.account} : Count(b) >= 1


(* The stepwise search returns what the functions return *)
SearchAgreesWithFunctions ==
    search.pc \in {"done", "panic"}
    => search.res = IF search.fn = "get_votes_at_block"
                    THEN VotesAtBlock(search.account, search.wanted)
                    ELSE AtBlock(search.account, search.wanted)


(* C15: the floor binary search terminates.  In get_checkpoint_at_block    *)
(* and in get_votes_at_block alike, with center = upper - (upper - lower)  *)
(* / 2, every loop iteration either returns or strictly decreases          *)
(* upper - lower, which never falls below zero, so the loop is left after  *)
(* at most n - 1 iterations; the loop is left through its condition only   *)
(* with lower = upper; and when upper - lower = 1, center equals upper.    *)
C15_SearchTerminates ==
    [][ search.pc = "loop" =>
          /\ search'.pc \in {"loop", "done"}
          /\ search'.pc = "loop" =>
                /\ search'.upper - search'.lower < search.upper - search.lower
                /\ search'.upper - search'.lower >= 0
                /\ search'.iter = search.iter + 1
                /\ search'.iter <= search.n - 1
          /\ search'.pc = "done" => search'.exit \in {"exact", "end"}
          /\ (search'.pc = "done" /\ search'.exit = "end")
                => search.lower = search.upper
          /\ search.upper - search.lower = 1
                => center_of(search.lower, search.upper) = search.upper
      ]_vars

(* A search over three or more checkpoints iterated twice, narrowing from  *)
(* each side, and left the loop through its condition.                     *)
C15_Witness ==
    /\ search.pc = "done"
    /\ search.exit = "end"
    /\ search.n >= 3
    /\ search.iter >= 2
    /\ search.lower = search.upper
    /\ search.lower > 0
    /\ search.upper < search.n - 1

(* The count of the log that the search in progress reads *)
SearchCount == NumOf(SearchNum(search.fn), search.account)

(* C18: throughout the binary search of get_checkpoint_at_block and of     *)
(* get_votes_at_block, 0 <= lower <= upper <= count - 1, and at every      *)
(* iteration lower < center <= upper, so upper = center - 1 neither        *)
(* underflows nor drops upper below lower; every index read lies inside    *)
(* the account's log, and no read fails.                                   *)
C18_SearchIndicesInBounds ==
    /\ search.pc # "panic"
    /\ search.pc \in {"loop", "done"} =>
          /\ search.n = SearchCount
          /\ \A i \in 1..Len(search.reads) :
                0 <= search.reads[i] /\ search.reads[i] <= SearchCount - 1
    /\ search.pc = "loop" =>
          /\ 0 <= search.lower
          /\ search.lower <= search.upper
          /\ search.upper <= SearchCount - 1
          /\ search.upper > search.lower =>
                /\ search.lower < center_of(search.lower, search.upper)
                /\ center_of(search.lower, search.upper) <= search.upper
                /\ center_of(search.lower, search.upper) - 1 >= search.lower
                /\ center_of(search.lower, search.upper) - 1 >= 0

(* get_votes_at_block is in its loop after an iteration that assigned      *)
(* upper = center - 1, with more than one index still in range.            *)
C18_Witness ==
    /\ search.pc = "loop"
    /\ search.fn = "get_votes_at_block"
    /\ search.iter >= 1
    /\ search.upper < search.n - 1
    /\ search.upper > search.lower


(* On the same log, get_votes_at_block returns the votes that              *)
(* get_checkpoint_at_block finds (0 when None): lib.rs has the index-0     *)
(* test of checkpoint.rs.  Refuted on a given log whose first checkpoint   *)
(* is after the queried block.                                             *)
GivenLogVotesAgree ==
    \A a \in Accounts, b \in 0..current_block :
        LET r == get_checkpoint_at_block(checkpoints, num_checkpoints, a, b, current_block)
        IN  VotesAtBlock(a, b) = Ok(IF r.val = None THEN 0 ELSE r.val[1].votes)

====
